---------------------------- MODULE Spec2Model ----------------------------
(***************************************************************************)
(* Text-to-MIDI generators of mi-kaneyon/randomsound.                      *)
(*                                                                         *)
(*   variant "en" : src/en_musictester.py  (one melody track, bucket       *)
(*                  pitch mapper, generate_drum_to_fit_time)               *)
(*   variant "rm" : src/random_music.py    (BGM / SONG modes, two melody   *)
(*                  channels, create_drum_track)                           *)
(*                                                                         *)
(* A MIDI track is a sequence of messages; a message is a record with the  *)
(* fields mido gives it.  Strings of the input text are sequences of       *)
(* one-character strings, so that len(), strip(), split() and re.sub()     *)
(* are computed character by character.                                    *)
(*                                                                         *)
(* The process-wide random source is a nondeterministic choice: choices    *)
(* among a few alternatives (pattern ids, note durations, the Markov draw, *)
(* in tenths) are enumerated in full; the integer ranges randint(lo, hi)   *)
(* are sampled as streams that alternate between lo and hi (DrawInt).      *)
(*                                                                         *)
(* CHOOSE x \in {e} : TRUE and {f(x) : x \in {e}} denote e and {f(e)}; they *)
(* are written where the value of e is used several times, so that it is   *)
(* computed once.                                                          *)
(***************************************************************************)
EXTENDS Integers, Sequences, FiniteSets, TLC

VARIABLES
    variant,          \* "en" | "rm": which program runs
    text,             \* the text widget's content (sequence of characters)
    mode,             \* rm: mode_var ("BGM" | "SONG")
    bpm_var,          \* the tempo variable of the form
    bpm,              \* the handler's local bpm (bpm_var.get(), rm: replaced when < 1)
    scale_name,       \* en: scale_var
    key_name,         \* en: key_var
    pc,               \* position of the running handler / function
    outcome,          \* "none" | "warning" | "error" | "IndexError" | "generated"
    tracks,           \* mid.tracks: sequence of tracks (sequences of messages)
    music_type,       \* rm: music_type
    words,            \* the cleaned tokens, in playing order
    word_lengths,     \* en: word_lengths
    scale_intervals,  \* en: scale_intervals
    mapped_indices,   \* en: mapped_indices
    section,          \* rm: [A_data, A_len, B_data, B_len] (flat mode: A = section_data)
    track_lengths,    \* rm: track_lengths; en: <<total_melody_ticks>>
    assembly,         \* which function built the melody: "none" | "en" | "bgm" | "song"
    total_length,     \* target handed to the drum scheduler (or the measure budget)
    current_time,     \* drum scheduler: current_time
    current_id,       \* drum scheduler: current pattern id, or "None"
    measures,         \* history: <<[kind, id, ticks, held]>> of the measures rendered so
                      \* far (held: current_id at the head of the iteration)
    markov_calls      \* SpecMarkov, history: <<[cur, r, next]>> of the calls of
                      \* choose_next_pattern made on its own

vars == <<variant, text, mode, bpm_var, bpm, scale_name, key_name, pc, outcome, tracks,
          music_type, words, word_lengths, scale_intervals, mapped_indices, section,
          track_lengths, assembly, total_length, current_time, current_id, measures,
          markov_calls>>

\* what the user entered
inputs == <<variant, text, mode, bpm_var, scale_name, key_name>>
\* what the melody generation computes
melody == <<music_type, words, word_lengths, scale_intervals, mapped_indices,
            section, track_lengths, assembly>>
\* the locals of the drum scheduler
drums == <<current_time, current_id, measures, markov_calls>>

-----------------------------------------------------------------------------
(* Bounds of the model *)

\* seeds of the sampled randint streams: 0..MaxSeed
MaxSeed == 1
\* the drum scheduler is checked for targets of up to MaxMeasures full measures
MaxMeasures == 2
\* the bucket mapper is checked for up to MaxWords tokens of length 0..MaxWordLen
\* and scales of 1..MaxScale degrees
\* choose_next_pattern on its own is checked for chains of up to MaxCalls calls
MaxCalls == 2
MaxWords == 3
MaxWordLen == 7
MaxScale == 4

Seeds == 0..MaxSeed

\* k-th draw (k >= 1) of random.randint(lo, hi) in the stream of seed s
DrawInt(lo, hi, s, k) ==
    CASE s = 0 -> IF k % 2 = 1 THEN lo ELSE hi
      [] s = 1 -> IF k % 2 = 1 THEN hi ELSE lo
      [] OTHER -> lo + ((s * k) % (hi - lo + 1))

-----------------------------------------------------------------------------
(* Generic helpers *)

Min(a, b) == IF a < b THEN a ELSE b
Max(a, b) == IF a > b THEN a ELSE b

RECURSIVE SumTimes(_)
\* sum of the delta times of a sequence of messages
SumTimes(evs) ==
    IF evs = <<>> THEN 0 ELSE evs[1].time + SumTimes(Tail(evs))

RECURSIVE SeqSum(_)
SeqSum(s) == IF s = <<>> THEN 0 ELSE s[1] + SeqSum(Tail(s))

RECURSIVE SeqMax(_)
\* max() of a non-empty sequence of integers
SeqMax(s) == IF Len(s) = 1 THEN s[1] ELSE Max(s[1], SeqMax(Tail(s)))

RECURSIVE SeqMin(_)
SeqMin(s) == IF Len(s) = 1 THEN s[1] ELSE Min(s[1], SeqMin(Tail(s)))

Prefix(s, k) == SubSeq(s, 1, k)

RECURSIVE PrefixSumsWithin(_, _, _)
\* no prefix of evs, started at acc, has a sum of delta times above limit
PrefixSumsWithin(evs, acc, limit) ==
    IF evs = <<>> THEN acc <= limit
    ELSE acc <= limit /\ PrefixSumsWithin(Tail(evs), acc + evs[1].time, limit)

-----------------------------------------------------------------------------
(* Python strings: sequences of one-character strings *)

Whitespace == {" ", "\n", "\t"}

\* the characters re.sub(r"[,\.\?!;:]", "", w) removes
Punctuation == {",", ".", "?", "!", ";", ":"}

IsSpace(c) == c \in Whitespace

RECURSIVE LStrip(_)
\* str.lstrip()
LStrip(s) ==
    IF s = <<>> THEN <<>>
    ELSE IF IsSpace(s[1]) THEN LStrip(Tail(s)) ELSE s

RECURSIVE RStrip(_)
\* str.rstrip()
RStrip(s) ==
    IF s = <<>> THEN <<>>
    ELSE IF IsSpace(s[Len(s)]) THEN RStrip(SubSeq(s, 1, Len(s) - 1)) ELSE s

\* str.strip()
Strip(s) == LStrip(RStrip(s))

\* re.sub(r"[,\.\?!;:]", "", w)
StripPunct(w) == SelectSeq(w, LAMBDA c : c \notin Punctuation)

\* str.lower(), on the letters the input texts use
Lower(s) ==
    [i \in DOMAIN s |->
        CASE s[i] = "R" -> "r" [] s[i] = "O" -> "o" [] s[i] = "C" -> "c"
          [] s[i] = "K" -> "k" [] s[i] = "A" -> "a" [] OTHER -> s[i]]

\* str.startswith(prefix)
StartsWith(s, prefix) ==
    Len(s) >= Len(prefix) /\ SubSeq(s, 1, Len(prefix)) = prefix

RECURSIVE ReSplitFrom(_, _, _)
\* re.split(r"\s+", s), reading s[i..] with the piece cur under construction:
\* a run of whitespace separates two pieces, so whitespace at either end of s
\* leaves an empty piece there
ReSplitFrom(s, i, cur) ==
    IF i > Len(s) THEN <<cur>>
    ELSE IF IsSpace(s[i])
         THEN IF i > 1 /\ IsSpace(s[i - 1])
              THEN ReSplitFrom(s, i + 1, cur)
              ELSE <<cur>> \o ReSplitFrom(s, i + 1, <<>>)
         ELSE ReSplitFrom(s, i + 1, Append(cur, s[i]))

ReSplit(s) == ReSplitFrom(s, 1, <<>>)

\* str.split(): the non-empty pieces between runs of whitespace
SplitWords(s) == SelectSeq(ReSplit(s), LAMBDA w : w # <<>>)

RECURSIVE SplitLinesFrom(_, _, _)
\* str.splitlines(): a line ends at "\n"; no empty line after a final "\n"
SplitLinesFrom(s, i, cur) ==
    IF i > Len(s) THEN (IF cur = <<>> THEN <<>> ELSE <<cur>>)
    ELSE IF s[i] = "\n"
         THEN <<cur>> \o SplitLinesFrom(s, i + 1, <<>>)
         ELSE SplitLinesFrom(s, i + 1, Append(cur, s[i]))

SplitLines(s) == SplitLinesFrom(s, 1, <<>>)

\* [re.sub(r"[,\.\?!;:]", "", w) for w in re.split(r"\s+", s) if w.strip()]
CleanWords(s) ==
    LET kept == SelectSeq(ReSplit(s), LAMBDA w : Strip(w) # <<>>)
    IN  [i \in DOMAIN kept |-> StripPunct(kept[i])]

RECURSIVE Concat(_)
\* the concatenation of a sequence of sequences
Concat(ss) == IF ss = <<>> THEN <<>> ELSE ss[1] \o Concat(Tail(ss))

-----------------------------------------------------------------------------
(* mido messages *)

NoteOn(note, velocity, time, channel) ==
    [type |-> "note_on", note |-> note, velocity |-> velocity,
     time |-> time, channel |-> channel]

NoteOff(note, velocity, time, channel) ==
    [type |-> "note_off", note |-> note, velocity |-> velocity,
     time |-> time, channel |-> channel]

ProgramChange(program, channel) ==
    [type |-> "program_change", program |-> program, time |-> 0, channel |-> channel]

ControlChange(channel, control, value) ==
    [type |-> "control_change", control |-> control, value |-> value,
     time |-> 0, channel |-> channel]

SetTempo(tempo) == [type |-> "set_tempo", tempo |-> tempo, time |-> 0]

\* mido.bpm2tempo: int(round(60 * 1e6 / bpm))
bpm2tempo(b) == (2 * 60000000 + b) \div (2 * b)

IsNote(m) == m.type \in {"note_on", "note_off"}

-----------------------------------------------------------------------------
(* Drum patterns and the Markov table (the same literals in both files) *)

DRUM_PATTERN_A ==
    << <<"K", 1>>, <<"H", 2>>, <<"H", 3>>, <<"H", 4>>,
       <<"S", 5>>, <<"H", 6>>, <<"H", 7>>, <<"H", 8>>,
       <<"K", 9>>, <<"H",10>>, <<"H",11>>, <<"H",12>>,
       <<"S",13>>, <<"H",14>>, <<"H",15>>, <<"H",16>> >>

DRUM_PATTERN_B ==
    << <<"K", 1>>, <<"H", 2>>, <<"H", 3>>, <<"H", 4>>,
       <<"S", 5>>, <<"H", 6>>, <<"K", 7>>, <<"H", 8>>,
       <<"K", 9>>, <<"H",10>>, <<"H",11>>, <<"H",12>>,
       <<"S",13>>, <<"H",14>>, <<"K",15>>, <<"H",16>> >>

DRUM_PATTERN_C ==
    << <<"K", 1>>, <<"H", 2>>, <<"H", 3>>, <<"H", 4>>,
       <<"S", 5>>, <<"H", 6>>, <<"S", 7>>, <<"H", 8>>,
       <<"K", 9>>, <<"K",10>>, <<"S",11>>, <<"S",12>>,
       <<"K",13>>, <<"H",14>>, <<"S",15>>, <<"H",16>> >>

DRUM_NOTE_MAP == [K |-> 36, S |-> 38, H |-> 42]

\* mutant: the list of B stops short of 1.0
DRUM_MARKOV_short ==
    [A |-> << <<"A", 4>>, <<"B", 4>>, <<"C", 2>> >>,
     B |-> << <<"A", 3>>, <<"B", 2>>, <<"C", 4>> >>,
     C |-> << <<"A", 6>>, <<"B", 4>> >>]

\* mutant: C may be followed by C
DRUM_MARKOV_cc ==
    [A |-> << <<"A", 4>>, <<"B", 4>>, <<"C", 2>> >>,
     B |-> << <<"A", 3>>, <<"B", 2>>, <<"C", 5>> >>,
     C |-> << <<"A", 6>>, <<"C", 4>> >>]

\* probabilities in tenths: ("A", 0.4) is <<"A", 4>>.  The float sums of the
\* source (0.4+0.4+0.2, 0.3+0.2+0.5, 0.6+0.4) are exactly 1.0 in IEEE doubles.
DRUM_MARKOV ==
    [A |-> << <<"A", 4>>, <<"B", 4>>, <<"C", 2>> >>,
     B |-> << <<"A", 3>>, <<"B", 2>>, <<"C", 5>> >>,
     C |-> << <<"A", 6>>, <<"B", 4>> >>]

\* get_drums_pattern_map() / get_drum_pattern_map()
get_drum_pattern_map ==
    [A |-> DRUM_PATTERN_A, B |-> DRUM_PATTERN_B, C |-> DRUM_PATTERN_C]

\* list(pattern_map.keys())
PatternIds == {"A", "B", "C"}

\* random.random() lies in [0, 1): the draws, in tenths
RandomDraws == 0..9

RECURSIVE MarkovWalk_inclusive(_, _, _, _)
\* mutant: an entry is taken already when r equals its cumulative probability
MarkovWalk_inclusive(choices, i, cumul, r) ==
    IF i > Len(choices) THEN "None"
    ELSE IF r <= cumul + choices[i][2] THEN choices[i][1]
         ELSE MarkovWalk_inclusive(choices, i + 1, cumul + choices[i][2], r)

RECURSIVE MarkovWalk(_, _, _, _)
\* the for loop of choose_next_pattern: cumul += prob; if r < cumul: return
MarkovWalk(choices, i, cumul, r) ==
    IF i > Len(choices) THEN "None"
    ELSE LET c == cumul + choices[i][2]
         IN  IF r < c THEN choices[i][1]
             ELSE MarkovWalk(choices, i + 1, c, r)

choose_next_pattern(cur, r) ==
    IF cur \notin DOMAIN DRUM_MARKOV THEN "None"
    ELSE MarkovWalk(DRUM_MARKOV[cur], 1, 0, r)

-----------------------------------------------------------------------------
(* Measure rendering *)

measure_ticks == 1920
DrumChannel == 9
\* mutant: a note-off that outlasts the step of 120 ticks
OffTicks_long == 120 + 10
OffTicks == 50
PartialStepTick == 120

RECURSIVE InsertByStep(_, _)
\* insert pair p into a step-sorted sequence after every pair of step <= p's
InsertByStep(sorted, p) ==
    IF sorted = <<>> THEN <<p>>
    ELSE IF sorted[1][2] <= p[2]
         THEN <<sorted[1]>> \o InsertByStep(Tail(sorted), p)
         ELSE <<p>> \o sorted

RECURSIVE SortedUpTo(_, _)
\* the first n pairs of pattern, sorted by step (insertion sort: stable)
SortedUpTo(pattern, n) ==
    IF n = 0 THEN <<>>
    ELSE CHOOSE res \in { InsertByStep(front, pattern[n]) :
                            front \in { SortedUpTo(pattern, n - 1) } } : TRUE

\* sorted(pattern, key=lambda x: x[1]): stable sort by step
SortedPattern(pattern) == SortedUpTo(pattern, Len(pattern))

\* number of velocities drawn so far while rendering (one per note_on/note_off pair)
Drawn(evs) == Cardinality({i \in DOMAIN evs : evs[i].type = "note_off"})

\* mutant: the 50 ticks of the note-off are not added to the accumulated time
FullStep_noadvance(pair, st, step_tick, lo, seed) ==
    LET event_tick == (pair[2] - 1) * step_tick
    IN  IF pair[1] \in DOMAIN DRUM_NOTE_MAP
        THEN [accum  |-> event_tick,
              events |-> st.events \o
                  << NoteOn(DRUM_NOTE_MAP[pair[1]],
                            DrawInt(lo, 100, seed, Drawn(st.events) + 1),
                            event_tick - st.accum, DrumChannel),
                     NoteOff(DRUM_NOTE_MAP[pair[1]], 0, OffTicks, DrumChannel) >>,
              stop   |-> FALSE]
        ELSE [accum |-> event_tick, events |-> st.events, stop |-> FALSE]

\* the body of the for loop of write_drum_measure / write_full_drum_measure for
\* one (drum_key, step) pair; st = [accum, events, stop]; lo is the lower
\* velocity bound (70 in en, 60 in rm)
FullStep(pair, st, step_tick, lo, seed) ==
    LET drum_key   == pair[1]
        step       == pair[2]
        event_tick == (step - 1) * step_tick
        delta_time == event_tick - st.accum
    IN  IF drum_key \in DOMAIN DRUM_NOTE_MAP
        THEN LET note_num == DRUM_NOTE_MAP[drum_key]
                 velocity == DrawInt(lo, 100, seed, Drawn(st.events) + 1)
             IN  [accum  |-> event_tick + OffTicks,
                  events |-> st.events \o
                      << NoteOn(note_num, velocity, delta_time, DrumChannel),
                         NoteOff(note_num, 0, OffTicks, DrumChannel) >>,
                  stop   |-> FALSE]
        ELSE [accum |-> event_tick, events |-> st.events, stop |-> FALSE]

RECURSIVE FullLoop(_, _, _, _, _, _)
\* the for loop over sorted_pattern[i..] (each step's result is computed once,
\* as the value of a bound variable)
FullLoop(sp, i, st, step_tick, lo, seed) ==
    IF i > Len(sp) THEN st
    ELSE CHOOSE res \in { FullLoop(sp, i + 1, nxt, step_tick, lo, seed) :
                            nxt \in { FullStep(sp[i], st, step_tick, lo, seed) } } : TRUE

LoopStart == [accum |-> 0, events |-> <<>>, stop |-> FALSE]

\* en: write_drum_measure(drum_track, pattern, measure_ticks, channel=9):
\* the messages appended to drum_track
write_drum_measure(pattern, mticks, seed) ==
    CHOOSE out \in
      { LET remainder == IF mticks - r.accum < 0 THEN 0 ELSE mticks - r.accum
        IN  IF remainder > 0
            THEN r.events \o << NoteOn(36, 0, remainder, DrumChannel) >>
            ELSE r.events :
        r \in { FullLoop(sp, 1, LoopStart, mticks \div 16, 70, seed) :
                  sp \in { SortedPattern(pattern) } } } : TRUE

\* mutant: the full measure of rm ends without its filler
write_full_drum_measure_nofiller(pattern, mticks, seed) ==
    FullLoop(SortedPattern(pattern), 1, LoopStart, mticks \div 16, 60, seed).events

\* rm: write_full_drum_measure(track, pattern, current_time, measure_ticks):
\* the messages appended to track (the filler is appended even when remain = 0)
write_full_drum_measure(pattern, mticks, seed) ==
    CHOOSE out \in
      { LET remain == IF mticks - r.accum < 0 THEN 0 ELSE mticks - r.accum
        IN  r.events \o << NoteOn(36, 0, remain, DrumChannel) >> :
        r \in { FullLoop(sp, 1, LoopStart, mticks \div 16, 60, seed) :
                  sp \in { SortedPattern(pattern) } } } : TRUE

\* mutant: the note-off keeps its 50 ticks whatever is left
ClampedOff_unclamped(event_tick, leftover) == OffTicks

\* the clamped note-off length of both partial renderers
ClampedOff(event_tick, leftover) ==
    IF event_tick + OffTicks > leftover
    THEN (IF leftover - event_tick < 0 THEN 0 ELSE leftover - event_tick)
    ELSE OffTicks

\* mutant: the loop is left already at a pair whose step tick equals leftover
PartialStep_atboundary(pair, st, leftover, lo, seed, early) ==
    LET event_tick == (pair[2] - 1) * PartialStepTick
    IN  IF event_tick >= leftover
        THEN [accum |-> st.accum, events |-> st.events, stop |-> TRUE]
        ELSE IF pair[1] \in DOMAIN DRUM_NOTE_MAP
        THEN [accum  |-> event_tick + ClampedOff(event_tick, leftover),
              events |-> st.events \o
                  << NoteOn(DRUM_NOTE_MAP[pair[1]],
                            DrawInt(lo, 100, seed, Drawn(st.events) + 1),
                            event_tick - st.accum, DrumChannel),
                     NoteOff(DRUM_NOTE_MAP[pair[1]], 0,
                             ClampedOff(event_tick, leftover), DrumChannel) >>,
              stop   |-> early /\ event_tick + ClampedOff(event_tick, leftover) >= leftover]
        ELSE [accum |-> event_tick, events |-> st.events,
              stop  |-> early /\ event_tick >= leftover]

\* mutant: a note cut short by the budget gets no note-off
PartialStep_dropoff(pair, st, leftover, lo, seed, early) ==
    LET event_tick == (pair[2] - 1) * PartialStepTick
        off_time   == ClampedOff(event_tick, leftover)
    IN  IF event_tick > leftover
        THEN [accum |-> st.accum, events |-> st.events, stop |-> TRUE]
        ELSE IF pair[1] \in DOMAIN DRUM_NOTE_MAP
        THEN [accum  |-> event_tick + off_time,
              events |-> st.events \o
                  << NoteOn(DRUM_NOTE_MAP[pair[1]],
                            DrawInt(lo, 100, seed, Drawn(st.events) + 1),
                            event_tick - st.accum, DrumChannel) >> \o
                  (IF off_time < OffTicks THEN <<>>
                   ELSE << NoteOff(DRUM_NOTE_MAP[pair[1]], 0, off_time, DrumChannel) >>),
              stop   |-> early /\ event_tick + off_time >= leftover]
        ELSE [accum |-> event_tick, events |-> st.events,
              stop  |-> early /\ event_tick >= leftover]

\* the body of the for loop of write_drum_partial_measure (early = FALSE) and
\* of write_partial_drum_measure (early = TRUE: "if accum >= leftover: break")
\* for one pair; stop is set when the loop breaks
PartialStep(pair, st, leftover, lo, seed, early) ==
    LET drum_key   == pair[1]
        step       == pair[2]
        event_tick == (step - 1) * PartialStepTick
        delta_time == event_tick - st.accum
    IN  IF event_tick > leftover
        THEN [accum |-> st.accum, events |-> st.events, stop |-> TRUE]
        ELSE IF drum_key \in DOMAIN DRUM_NOTE_MAP
        THEN LET note_num == DRUM_NOTE_MAP[drum_key]
                 velocity == DrawInt(lo, 100, seed, Drawn(st.events) + 1)
                 off_time == ClampedOff(event_tick, leftover)
             IN  [accum  |-> event_tick + off_time,
                  events |-> st.events \o
                      << NoteOn(note_num, velocity, delta_time, DrumChannel),
                         NoteOff(note_num, 0, off_time, DrumChannel) >>,
                  stop   |-> early /\ event_tick + off_time >= leftover]
        ELSE [accum |-> event_tick, events |-> st.events,
              stop  |-> early /\ event_tick >= leftover]

RECURSIVE PartialLoop(_, _, _, _, _, _, _)
\* the for loop over sorted_pattern[i..], left at the first break
PartialLoop(sp, i, st, leftover, lo, seed, early) ==
    IF i > Len(sp) \/ st.stop THEN st
    ELSE CHOOSE res \in { PartialLoop(sp, i + 1, nxt, leftover, lo, seed, early) :
                            nxt \in { PartialStep(sp[i], st, leftover, lo, seed, early) } } : TRUE

\* mutant: the partial measure is not padded up to leftover_ticks
write_drum_partial_measure_nopad(pattern, leftover_ticks, seed) ==
    PartialLoop(SortedPattern(pattern), 1, LoopStart, leftover_ticks, 70, seed, FALSE).events

\* en: write_drum_partial_measure(drum_track, pattern, leftover_ticks, channel=9)
write_drum_partial_measure(pattern, leftover_ticks, seed) ==
    CHOOSE out \in
      { LET remainder == leftover_ticks - r.accum
        IN  IF remainder > 0
            THEN r.events \o << NoteOn(36, 0, remainder, DrumChannel) >>
            ELSE r.events :
        r \in { PartialLoop(sp, 1, LoopStart, leftover_ticks, 70, seed, FALSE) :
                  sp \in { SortedPattern(pattern) } } } : TRUE

\* mutant: the filler pads up to a whole measure, as the full renderer does
write_partial_drum_measure_fullpad(pattern, leftover, seed) ==
    LET r == PartialLoop(SortedPattern(pattern), 1, LoopStart, leftover, 60, seed, TRUE)
    IN  r.events \o << NoteOn(36, 0, measure_ticks - r.accum, DrumChannel) >>

\* rm: write_partial_drum_measure(track, pattern, current_time, leftover)
write_partial_drum_measure(pattern, leftover, seed) ==
    CHOOSE out \in
      { LET remain == leftover - r.accum
        IN  IF remain > 0
            THEN r.events \o << NoteOn(36, 0, remain, DrumChannel) >>
            ELSE r.events :
        r \in { PartialLoop(sp, 1, LoopStart, leftover, 60, seed, TRUE) :
                  sp \in { SortedPattern(pattern) } } } : TRUE

-----------------------------------------------------------------------------
(* The drum scheduler: generate_drum_to_fit_time (en), create_drum_track (rm) *)

\* the drum track is the track appended last
DrumTrack == tracks[Len(tracks)]

AppendToDrumTrack(evs) ==
    [tracks EXCEPT ![Len(tracks)] = tracks[Len(tracks)] \o evs]

\* patterns handed to the measure renderers on their own (SpecMeasure) besides
\* the shipped ones: D has two events at step 1, E is unsorted, repeats a step
\* and names a role that DRUM_NOTE_MAP does not know
TestPatterns ==
    [D |-> << <<"K", 1>>, <<"S", 1>>, <<"H", 2>>, <<"H", 3>> >>,
     E |-> << <<"H", 3>>, <<"X", 2>>, <<"K", 1>>, <<"S", 3>>, <<"H", 16>> >>]

PatternOf(id) ==
    IF id \in DOMAIN get_drum_pattern_map THEN get_drum_pattern_map[id]
    ELSE TestPatterns[id]

\* the messages one full measure appends, by variant
FullMeasureEvents(v, pattern, seed) ==
    IF v = "en" THEN write_drum_measure(pattern, measure_ticks, seed)
    ELSE write_full_drum_measure(pattern, measure_ticks, seed)

\* the messages one partial measure appends, by variant
PartialMeasureEvents(v, pattern, leftover, seed) ==
    IF v = "en" THEN write_drum_partial_measure(pattern, leftover, seed)
    ELSE write_partial_drum_measure(pattern, leftover, seed)

\* mutant: the scheduler forgets to advance after a full measure
AfterFullMeasure_stuck(ct) == ct

\* mutant: a full measure advances the scheduler by two measures
AfterFullMeasure_double(ct) == ct + 2 * measure_ticks

\* current_time after a full measure ("current_time += measure_ticks" in en,
\* the value write_full_drum_measure returns in rm)
AfterFullMeasure(ct) == ct + measure_ticks

\* current_time after a partial measure ("current_time += leftover" in en,
\* the value write_partial_drum_measure returns in rm)
AfterPartialMeasure(ct, leftover) == ct + leftover

\* en_musictester.py:91-95 and random_music.py:269-279: the statements before
\* the while loop.  en is handed the drum track; rm creates and appends it.
DrumStart ==
    /\ pc = "drum_start"
    /\ \E first \in PatternIds :
         /\ current_id' = first
         /\ current_time' = 0
         /\ tracks' = IF variant = "rm"
                      THEN Append(tracks, << SetTempo(bpm2tempo(bpm)),
                                             ControlChange(DrumChannel, 7, 127) >>)
                      ELSE tracks
    /\ pc' = "drum_loop"
    /\ UNCHANGED <<inputs, bpm, melody, outcome, total_length, measures, markov_calls>>

\* mutant: no pattern is chosen when none is held
PatternChoices_nofallback(cur) == IF cur = "None" THEN {} ELSE {cur}

\* "if not current_id: current_id = random.choice(list(pattern_map.keys()))":
\* the ids the iteration may go on with
PatternChoices(cur) == IF cur = "None" THEN PatternIds ELSE {cur}

\* one iteration of the while loop (its condition holds)
DrumIteration ==
    /\ pc = "drum_loop"
    /\ current_time < total_length
    /\ \E id \in PatternChoices(current_id) :
         LET leftover == total_length - current_time
             pattern  == get_drum_pattern_map[id]
         IN  IF leftover <= 0
             THEN /\ pc' = "done"
                  /\ outcome' = "generated"
                  /\ UNCHANGED <<tracks, current_time, current_id, measures>>
             ELSE IF leftover >= measure_ticks
             THEN /\ \E seed \in Seeds :
                       tracks' = AppendToDrumTrack(FullMeasureEvents(variant, pattern, seed))
                  /\ current_time' = AfterFullMeasure(current_time)
                  /\ \E r \in RandomDraws : current_id' = choose_next_pattern(id, r)
                  /\ measures' = Append(measures,
                                   [kind |-> "full", id |-> id, ticks |-> measure_ticks,
                                    held |-> current_id])
                  /\ UNCHANGED <<pc, outcome>>
             ELSE /\ \E seed \in Seeds :
                       tracks' = AppendToDrumTrack(
                                   PartialMeasureEvents(variant, pattern, leftover, seed))
                  /\ current_time' = AfterPartialMeasure(current_time, leftover)
                  /\ current_id' = id
                  /\ measures' = Append(measures,
                                   [kind |-> "partial", id |-> id, ticks |-> leftover,
                                    held |-> current_id])
                  /\ pc' = "done"
                  /\ outcome' = "generated"
    /\ UNCHANGED <<inputs, bpm, melody, total_length, markov_calls>>

\* the while condition fails: the scheduler returns
DrumExit ==
    /\ pc = "drum_loop"
    /\ ~(current_time < total_length)
    /\ pc' = "done"
    /\ outcome' = "generated"
    /\ UNCHANGED <<inputs, bpm, melody, tracks, total_length, drums>>

-----------------------------------------------------------------------------
(* SpecDrum: the scheduler on its own, for every target of the bounded set *)

\* remainders of the target modulo one measure: every step boundary, and the
\* ticks around a note-off (49, 50, 51), around a step (119, 121), the spec's
\* 70 and 580, and the extremes 1 and 1919
Remainders ==
    {r \in 0..(measure_ticks - 1) : r % PartialStepTick = 0}
        \cup {1, 49, 50, 51, 70, 119, 121, 580, 1850, 1919}

\* every remainder after zero or one full measure, a few after more
Targets ==
    {k * measure_ticks + r : k \in 0..1, r \in Remainders}
        \cup {k * measure_ticks + r : k \in 2..MaxMeasures, r \in {0, 1, 580}}

InitCommon ==
    /\ text = <<>>
    /\ mode = "BGM"
    /\ bpm_var = 120
    /\ bpm = 120
    /\ scale_name = "none"
    /\ key_name = "none"
    /\ outcome = "none"
    /\ music_type = "default"
    /\ words = <<>>
    /\ word_lengths = <<>>
    /\ scale_intervals = <<>>
    /\ mapped_indices = <<>>
    /\ section = [A_data |-> <<>>, A_len |-> 0, B_data |-> <<>>, B_len |-> 0]
    /\ track_lengths = <<>>
    /\ assembly = "none"
    /\ current_time = 0
    /\ measures = <<>>
    /\ markov_calls = <<>>

InitDrum ==
    /\ InitCommon
    /\ variant \in {"en", "rm"}
    /\ total_length \in Targets
    /\ tracks = IF variant = "en" THEN << <<>> >> ELSE <<>>
    /\ current_id = "None"
    /\ pc = "drum_start"

NextDrum == DrumStart \/ DrumIteration \/ DrumExit

SpecDrum == InitDrum /\ [][NextDrum]_vars

\* the loop is a running program: it takes its next step whenever it has one
SpecDrumFair == SpecDrum /\ WF_vars(NextDrum)

-----------------------------------------------------------------------------
(* SpecMeasure: the two measure renderers on their own, for every pattern    *)
(* of the shipped and the test set and every tick budget of 1..1920          *)

InitMeasure ==
    /\ InitCommon
    /\ variant \in {"en", "rm"}
    /\ current_id \in PatternIds \cup DOMAIN TestPatterns
    /\ total_length \in 1..measure_ticks
    /\ tracks = << <<>> >>
    /\ pc = "render"

RenderFullMeasure ==
    /\ pc = "render"
    /\ total_length >= measure_ticks
    /\ \E seed \in Seeds :
         tracks' = AppendToDrumTrack(FullMeasureEvents(variant, PatternOf(current_id), seed))
    /\ current_time' = AfterFullMeasure(current_time)
    /\ measures' = Append(measures,
                     [kind |-> "full", id |-> current_id, ticks |-> measure_ticks,
                      held |-> current_id])
    /\ pc' = "rendered"
    /\ UNCHANGED <<inputs, bpm, melody, outcome, total_length, current_id, markov_calls>>

RenderPartialMeasure ==
    /\ pc = "render"
    /\ total_length < measure_ticks
    /\ \E seed \in Seeds :
         tracks' = AppendToDrumTrack(
                     PartialMeasureEvents(variant, PatternOf(current_id), total_length, seed))
    /\ current_time' = AfterPartialMeasure(current_time, total_length)
    /\ measures' = Append(measures,
                     [kind |-> "partial", id |-> current_id, ticks |-> total_length,
                      held |-> current_id])
    /\ pc' = "rendered"
    /\ UNCHANGED <<inputs, bpm, melody, outcome, total_length, current_id, markov_calls>>

NextMeasure == RenderFullMeasure \/ RenderPartialMeasure

SpecMeasure == InitMeasure /\ [][NextMeasure]_vars

-----------------------------------------------------------------------------
(* SpecLoop: the while loop of the scheduler from its head, for every value   *)
(* choose_next_pattern can return for the pattern held: an id or None         *)

InitLoop ==
    /\ InitCommon
    /\ variant \in {"en", "rm"}
    /\ total_length \in {0, 1, 580, measure_ticks, measure_ticks + 580}
    /\ tracks = IF variant = "en" THEN << <<>> >>
                ELSE << << SetTempo(bpm2tempo(bpm)),
                           ControlChange(DrumChannel, 7, 127) >> >>
    /\ current_id \in PatternIds \cup {"None"}
    /\ pc = "drum_loop"

NextLoop == DrumIteration \/ DrumExit

SpecLoop == InitLoop /\ [][NextLoop]_vars

-----------------------------------------------------------------------------
(* SpecMarkov: choose_next_pattern on its own, for every pattern id of the   *)
(* table and every draw, in chains of up to MaxCalls calls                   *)

InitMarkov ==
    /\ InitCommon
    /\ variant \in {"en", "rm"}
    /\ current_id \in PatternIds
    /\ total_length = 0
    /\ tracks = <<>>
    /\ pc = "markov"

\* current_id = choose_next_pattern(current_id)
MarkovCall ==
    /\ pc = "markov"
    /\ Len(markov_calls) < MaxCalls
    /\ current_id \in PatternIds
    /\ \E r \in RandomDraws :
         /\ current_id' = choose_next_pattern(current_id, r)
         /\ markov_calls' = Append(markov_calls,
                               [cur |-> current_id, r |-> r,
                                next |-> choose_next_pattern(current_id, r)])
    /\ UNCHANGED <<inputs, bpm, melody, pc, outcome, tracks, total_length,
                   current_time, measures>>

NextMarkov == MarkovCall

SpecMarkov == InitMarkov /\ [][NextMarkov]_vars

-----------------------------------------------------------------------------
(* random_music.py: melody data *)

TYPE_INSTRUMENTS ==
    [rock      |-> <<29, 30, 31, 24, 25>>,
     metal     |-> <<30, 31, 80, 81>>,
     pop       |-> <<0, 4, 24, 40, 73>>,
     classical |-> <<40, 41, 42, 43, 44, 45, 46>>,
     default   |-> <<0, 24, 32, 40, 56, 57, 72, 73, 74>>]

\* the keys of TYPE_INSTRUMENTS, as the character sequences the text holds
GenreSpelling ==
    [rock      |-> <<"r", "o", "c", "k">>,
     metal     |-> <<"m", "e", "t", "a", "l">>,
     pop       |-> <<"p", "o", "p">>,
     classical |-> <<"c", "l", "a", "s", "s", "i", "c", "a", "l">>,
     default   |-> <<"d", "e", "f", "a", "u", "l", "t">>]

MAJOR_SCALE == <<0, 2, 4, 5, 7, 9, 11, 12>>

\* note_durations of generate_section_data
SectionDurations(is_chorus) ==
    IF is_chorus THEN {480, 960, 1920} ELSE {240, 480, 960}

\* the words generate_section_data makes a note of
NonEmpty(ws) == SelectSeq(ws, LAMBDA w : Len(w) > 0)

\* mutant: every note draws its velocity from the chorus range
SectionNote_loud(w, k, is_chorus, durs, vseed, gseed) ==
    [note_num |-> (IF is_chorus THEN 64 ELSE 60)
                     + MAJOR_SCALE[(Len(w) % Len(MAJOR_SCALE)) + 1],
     velocity |-> DrawInt(100, 127, vseed, k),
     dur |-> durs[k],
     gap |-> IF is_chorus THEN DrawInt(0, 120, gseed, k) ELSE 0]

\* one note of generate_section_data: the k-th note, for word w
SectionNote(w, k, is_chorus, durs, vseed, gseed) ==
    LET l            == Len(w)
        idx_scale    == l % Len(MAJOR_SCALE)
        pitch_offset == MAJOR_SCALE[idx_scale + 1]
        base_note    == IF is_chorus THEN 64 ELSE 60
        velocity     == IF is_chorus THEN DrawInt(100, 127, vseed, k)
                        ELSE DrawInt(80, 120, vseed, k)
        gap          == IF is_chorus THEN DrawInt(0, 120, gseed, k) ELSE 0
    IN  [note_num |-> base_note + pitch_offset, velocity |-> velocity,
         dur |-> durs[k], gap |-> gap]

RECURSIVE SectionTotal(_)
\* total_length += dur + gap
SectionTotal(data) ==
    IF data = <<>> THEN 0
    ELSE data[1].dur + data[1].gap + SectionTotal(Tail(data))

\* generate_section_data(words, is_chorus): words of length 0 are skipped; the
\* k-th note takes the k-th duration of durs and the k-th draws of the
\* velocity and gap streams.  Returns (section_data, total_length).
generate_section_data(ws, is_chorus, durs, vseed, gseed) ==
    LET used == NonEmpty(ws)
        data == [k \in DOMAIN used |->
                    SectionNote(used[k], k, is_chorus, durs, vseed, gseed)]
    IN  [data |-> data, total |-> SectionTotal(data)]

\* the draws of random.choice(note_durations) for the notes of ws
DurationDraws(ws, is_chorus) ==
    [1..Len(NonEmpty(ws)) -> SectionDurations(is_chorus)]

\* the messages apply_section_data_to_channel appends for one note
NoteMessages(n, channel) ==
    << NoteOn(n.note_num, n.velocity, 0, channel),
       NoteOff(n.note_num, 0, n.dur, channel) >>
    \o (IF n.gap > 0 THEN << NoteOn(n.note_num, 0, n.gap, channel) >> ELSE <<>>)

RECURSIVE AppliedMessages(_, _)
AppliedMessages(section_data, channel) ==
    IF section_data = <<>> THEN <<>>
    ELSE NoteMessages(section_data[1], channel)
            \o AppliedMessages(Tail(section_data), channel)

RECURSIVE AppliedTicks(_)
\* total_used += dur, and += gap when gap > 0
AppliedTicks(section_data) ==
    IF section_data = <<>> THEN 0
    ELSE section_data[1].dur
            + (IF section_data[1].gap > 0 THEN section_data[1].gap ELSE 0)
            + AppliedTicks(Tail(section_data))

\* mutant: the velocity is decided again when the note is placed
apply_section_data_to_channel_revel(section_data, channel) ==
    [events |-> AppliedMessages(
                   [k \in DOMAIN section_data |->
                       [section_data[k] EXCEPT !.velocity = @ - channel]], channel),
     total_used |-> AppliedTicks(section_data)]

\* mutant: the gap is counted but no message is written for it
apply_section_data_to_channel_nogap(section_data, channel) ==
    [events |-> AppliedMessages(
                   [k \in DOMAIN section_data |->
                       [section_data[k] EXCEPT !.gap = 0]], channel),
     total_used |-> AppliedTicks(section_data)]

\* mutant: channel 1 does not count its first note
apply_section_data_to_channel_ch1(section_data, channel) ==
    [events |-> AppliedMessages(section_data, channel),
     total_used |-> IF channel = 1 /\ section_data # <<>>
                    THEN AppliedTicks(Tail(section_data))
                    ELSE AppliedTicks(section_data)]

\* apply_section_data_to_channel(track, section_data, channel, bpm): the
\* messages appended to track and the value returned
apply_section_data_to_channel(section_data, channel) ==
    [events |-> AppliedMessages(section_data, channel),
     total_used |-> AppliedTicks(section_data)]

\* the three messages each melody track starts with
ChannelHeader(ch, program, b) ==
    << SetTempo(bpm2tempo(b)), ProgramChange(program, ch), ControlChange(ch, 7, 127) >>

\* TYPE_INSTRUMENTS.get(music_type, TYPE_INSTRUMENTS["default"])
InstrumentPool(mt) ==
    IF mt \in DOMAIN TYPE_INSTRUMENTS THEN TYPE_INSTRUMENTS[mt]
    ELSE TYPE_INSTRUMENTS["default"]

\* random.choice(pool), sampled: the first and the last program of the pool
ProgramDraws(pool) == {pool[1], pool[Len(pool)]}

\* detect_music_type(text): a key of TYPE_INSTRUMENTS, or "IndexError" when
\* first_line[1:].split() is empty and [0] is taken of it
detect_music_type(t) ==
    LET lines == SplitLines(t)
    IN  IF lines = <<>> THEN "default"
        ELSE LET first_line == Lower(Strip(lines[1]))
             IN  IF StartsWith(first_line, <<"#">>)
                 THEN LET parts == SplitWords(Tail(first_line))
                      IN  IF parts = <<>> THEN "IndexError"
                          ELSE IF \E g \in DOMAIN TYPE_INSTRUMENTS : GenreSpelling[g] = parts[1]
                               THEN CHOOSE g \in DOMAIN TYPE_INSTRUMENTS :
                                       GenreSpelling[g] = parts[1]
                               ELSE "default"
                 ELSE "default"

\* bgm_mode: all_words
AllWords(t) ==
    LET lines == SplitLines(t)
    IN  Concat([i \in DOMAIN lines |-> CleanWords(lines[i])])

\* song_mode: lines_to_words(lns)
lines_to_words(lns) == Concat([i \in DOMAIN lns |-> CleanWords(lns[i])])

\* song_mode: chorus_lines
ChorusLines(t) ==
    LET lines  == SplitLines(t)
        chorus == SelectSeq(lines, LAMBDA ln : StartsWith(LStrip(ln), <<">">>))
    IN  [i \in DOMAIN chorus |-> Strip(Tail(LStrip(chorus[i])))]

\* song_mode: normal_lines
NormalLines(t) ==
    LET lines  == SplitLines(t)
        normal == SelectSeq(lines, LAMBDA ln : ~StartsWith(LStrip(ln), <<">">>))
    IN  [i \in DOMAIN normal |-> Strip(normal[i])]

\* the number of times bgm_mode repeats the words
loops == 2

RECURSIVE Repeat(_, _)
\* all_words * n
Repeat(ws, n) == IF n <= 0 THEN <<>> ELSE ws \o Repeat(ws, n - 1)

-----------------------------------------------------------------------------
(* random_music.py: BGMSongApp.on_generate *)

\* on_generate, lines 413-430: up to the call of bgm_mode or song_mode
RmStart ==
    /\ variant = "rm"
    /\ pc = "start"
    /\ LET t == RStrip(text)
       IN  IF t = <<>>
           THEN /\ outcome' = "warning"
                /\ pc' = "done"
                /\ UNCHANGED <<bpm, music_type>>
           ELSE /\ bpm' = IF bpm_var < 1 THEN 120 ELSE bpm_var
                /\ IF detect_music_type(t) = "IndexError"
                   THEN /\ outcome' = "IndexError"
                        /\ pc' = "done"
                        /\ UNCHANGED music_type
                   ELSE /\ music_type' = detect_music_type(t)
                        /\ pc' = IF mode = "BGM" THEN "rm_bgm" ELSE "rm_song"
                        /\ UNCHANGED outcome
    /\ UNCHANGED <<inputs, tracks, words, word_lengths, scale_intervals,
                   mapped_indices, section, track_lengths, assembly, total_length,
                   drums>>

\* bgm_mode(mid, text, bpm, music_type), whole
BgmMode ==
    /\ pc = "rm_bgm"
    /\ LET repeated_words == Repeat(AllWords(RStrip(text)), loops)
           pool == InstrumentPool(music_type)
       IN  \E durs \in DurationDraws(repeated_words, FALSE), vseed \in Seeds :
           \E p0 \in ProgramDraws(pool), p1 \in ProgramDraws(pool) :
             LET sd == generate_section_data(repeated_words, FALSE, durs, vseed, 0)
                 a0 == apply_section_data_to_channel(sd.data, 0)
                 a1 == apply_section_data_to_channel(sd.data, 1)
             IN  /\ words' = repeated_words
                 /\ section' = [A_data |-> sd.data, A_len |-> sd.total,
                                B_data |-> <<>>, B_len |-> 0]
                 /\ tracks' = tracks \o << ChannelHeader(0, p0, bpm) \o a0.events,
                                           ChannelHeader(1, p1, bpm) \o a1.events >>
                 /\ track_lengths' = << a0.total_used, a1.total_used >>
                 /\ total_length' = Max(a0.total_used, a1.total_used)
    /\ assembly' = "bgm"
    /\ pc' = "drum_start"
    /\ UNCHANGED <<inputs, bpm, outcome, music_type, word_lengths, scale_intervals,
                   mapped_indices, drums>>

\* mutant: the verse is generated again for its second occurrence
SongChannel_regen(ch, A_data, B_data) ==
    LET a == apply_section_data_to_channel(A_data, ch)
        b == apply_section_data_to_channel(B_data, ch)
        c == apply_section_data_to_channel(
                 [k \in DOMAIN A_data |->
                     [A_data[k] EXCEPT !.velocity = 200 - @]], ch)
    IN  [events |-> a.events \o b.events \o c.events,
         length_total |-> a.total_used + b.total_used + c.total_used]

\* song_mode, lines 253-261: A, B and A again on one channel
SongChannel(ch, A_data, B_data) ==
    LET a == apply_section_data_to_channel(A_data, ch)
        b == apply_section_data_to_channel(B_data, ch)
    IN  [events |-> a.events \o b.events \o a.events,
         length_total |-> a.total_used + b.total_used + a.total_used]

\* song_mode(mid, text, bpm, music_type), whole; without chorus words it
\* returns bgm_mode(mid, text, bpm, music_type)
SongMode ==
    /\ pc = "rm_song"
    /\ LET a_words == lines_to_words(NormalLines(RStrip(text)))
           b_words == lines_to_words(ChorusLines(RStrip(text)))
           pool    == InstrumentPool(music_type)
       IN  IF b_words = <<>>
           THEN /\ pc' = "rm_bgm"
                /\ UNCHANGED <<words, section, tracks, track_lengths, assembly,
                               total_length>>
           ELSE \E adurs \in DurationDraws(a_words, FALSE), avseed \in Seeds :
                \E bdurs \in DurationDraws(b_words, TRUE), bvseed \in Seeds, gseed \in Seeds :
                \E p0 \in ProgramDraws(pool), p1 \in ProgramDraws(pool) :
                  LET A  == generate_section_data(a_words, FALSE, adurs, avseed, 0)
                      B  == generate_section_data(b_words, TRUE, bdurs, bvseed, gseed)
                      c0 == SongChannel(0, A.data, B.data)
                      c1 == SongChannel(1, A.data, B.data)
                  IN  /\ words' = a_words \o b_words \o a_words
                      /\ section' = [A_data |-> A.data, A_len |-> A.total,
                                     B_data |-> B.data, B_len |-> B.total]
                      /\ tracks' = tracks \o
                           << ChannelHeader(0, p0, bpm) \o c0.events,
                              ChannelHeader(1, p1, bpm) \o c1.events >>
                      /\ track_lengths' = << c0.length_total, c1.length_total >>
                      /\ total_length' = Max(c0.length_total, c1.length_total)
                      /\ assembly' = "song"
                      /\ pc' = "drum_start"
    /\ UNCHANGED <<inputs, bpm, outcome, music_type, word_lengths, scale_intervals,
                   mapped_indices, drums>>

-----------------------------------------------------------------------------
(* en_musictester.py: TextToMidiSyncApp.on_generate_midi *)

SCALE_OPTIONS ==
    ("Rock (Minor Pentatonic)"    :> <<0, 3, 5, 7, 10, 12>>) @@
    ("Blues (Blues Scale)"        :> <<0, 3, 5, 6, 7, 10, 12>>) @@
    ("Metal (Phrygian Dominant)"  :> <<0, 1, 4, 5, 7, 8, 10, 12>>) @@
    ("Ballad (Major Scale)"       :> <<0, 2, 4, 5, 7, 9, 11, 12>>) @@
    ("Classical (Harmonic Minor)" :> <<0, 2, 3, 5, 7, 8, 11, 12>>)

KEY_OPTIONS == ("Low (C3)" :> 60) @@ ("Normal (D3)" :> 62) @@ ("High (E3)" :> 64)

\* reverb_var and chorus_var as the form creates them
reverb_amount == 40
chorus_amount == 20

\* note_durations of on_generate_midi
MelodyDurations == {480, 960, 1920}

\* mutant: the last parts, not the first, hold the extra elements
ArrayPart_late(lo, hi, n, k) ==
    LET total  == hi - lo + 1
        each   == total \div n
        extras == total % n
        before == (k - 1) * each + (IF k - 1 > n - extras THEN k - 1 - (n - extras) ELSE 0)
        size   == each + (IF k > n - extras THEN 1 ELSE 0)
    IN  [i \in 1..size |-> lo + before + i - 1]

\* one part of np.array_split(range(lo, hi + 1), n): the k-th (k = 1..n); the
\* first (hi - lo + 1) % n parts hold one element more than the others
ArrayPart(lo, hi, n, k) ==
    LET total     == hi - lo + 1
        each      == total \div n
        extras    == total % n
        start     == lo + (k - 1) * each + Min(k - 1, extras)
        size      == each + (IF k <= extras THEN 1 ELSE 0)
    IN  [i \in 1..size |-> start + i - 1]

\* np.array_split(range(lo, hi + 1), n)
array_split(lo, hi, n) == [k \in 1..n |-> ArrayPart(lo, hi, n, k)]

RECURSIVE FindBucket(_, _, _)
\* the inner loop of lines 307-310, from part idx on: "found" with the index
\* appended for length, "IndexError" when seg[0] is taken of an empty part,
\* "none" when the loop ends without a break
FindBucket(length, splitted_ranges, idx) ==
    IF idx > Len(splitted_ranges) THEN [kind |-> "none", idx |-> 0]
    ELSE LET seg == splitted_ranges[idx]
         IN  IF seg = <<>> THEN [kind |-> "IndexError", idx |-> 0]
             ELSE IF seg[1] <= length /\ length <= seg[Len(seg)]
                  THEN [kind |-> "found", idx |-> idx - 1]
             ELSE FindBucket(length, splitted_ranges, idx + 1)

\* mutant: the part is chosen in proportion to the length
BucketOf_scaled(length, lengths, n_scales) ==
    LET lo == SeqMin(lengths)
        hi == SeqMax(lengths)
    IN  [kind |-> "found",
         idx  |-> IF hi = lo THEN 0
                  ELSE ((length - lo) * (n_scales - 1)) \div (hi - lo)]

\* lines 303-310 for one word: array_split of [min_len, max_len] and the search
BucketOf(length, lengths, n_scales) ==
    FindBucket(length, array_split(SeqMin(lengths), SeqMax(lengths), n_scales), 1)

RECURSIVE MapFrom(_, _, _)
\* the outer loop of lines 306-310 from word i on: the indices appended, and
\* whether the loop was left by an IndexError
MapFrom(lengths, n_scales, i) ==
    IF i > Len(lengths) THEN [raised |-> FALSE, indices |-> <<>>]
    ELSE LET b == BucketOf(lengths[i], lengths, n_scales)
         IN  IF b.kind = "IndexError" THEN [raised |-> TRUE, indices |-> <<>>]
             ELSE LET rest == MapFrom(lengths, n_scales, i + 1)
                  IN  [raised  |-> rest.raised,
                       indices |-> (IF b.kind = "found" THEN <<b.idx>> ELSE <<>>)
                                       \o rest.indices]

\* the melody notes of lines 329-339
MelodyNotes(indices, intervals, base_note, durs, vseed) ==
    Concat([k \in DOMAIN indices |->
              << NoteOn(base_note + intervals[indices[k] + 1],
                        DrawInt(90, 127, vseed, k), 0, 0),
                 NoteOff(base_note + intervals[indices[k] + 1], 0, durs[k], 0) >>])

\* lines 265-300: the checks before any generation
EnValidate ==
    /\ variant = "en"
    /\ pc = "start"
    /\ LET t  == Strip(text)
           ws == CleanWords(t)
       IN  IF t = <<>> \/ ws = <<>>
           THEN /\ outcome' = "warning"
                /\ pc' = "done"
                /\ UNCHANGED <<words, word_lengths, scale_intervals>>
           ELSE /\ words' = ws
                /\ word_lengths' = [i \in DOMAIN ws |-> Len(ws[i])]
                /\ IF scale_name \notin DOMAIN SCALE_OPTIONS
                   THEN /\ outcome' = "error"
                        /\ pc' = "done"
                        /\ UNCHANGED scale_intervals
                   ELSE /\ scale_intervals' = SCALE_OPTIONS[scale_name]
                        /\ IF key_name \notin DOMAIN KEY_OPTIONS \/ bpm_var <= 0
                           THEN /\ outcome' = "error"
                                /\ pc' = "done"
                           ELSE /\ pc' = "en_map"
                                /\ UNCHANGED outcome
    /\ UNCHANGED <<inputs, bpm, tracks, music_type, mapped_indices, section,
                   track_lengths, assembly, total_length, drums>>

\* lines 303-310: the bucket mapper
EnMapIndices ==
    /\ pc = "en_map"
    /\ LET m == MapFrom(word_lengths, Len(scale_intervals), 1)
       IN  IF m.raised
           THEN /\ outcome' = "IndexError"
                /\ pc' = "done"
                /\ UNCHANGED mapped_indices
           ELSE /\ mapped_indices' = m.indices
                /\ pc' = "en_melody"
                /\ UNCHANGED outcome
    /\ UNCHANGED <<inputs, bpm, tracks, music_type, words, word_lengths,
                   scale_intervals, section, track_lengths, assembly, total_length,
                   drums>>

\* lines 312-351: the melody track and the head of the drum track
EnMelody ==
    /\ pc = "en_melody"
    /\ \E durs \in [1..Len(mapped_indices) -> MelodyDurations], vseed \in Seeds :
         LET tempo_val == bpm2tempo(bpm)
             notes     == MelodyNotes(mapped_indices, scale_intervals,
                                      KEY_OPTIONS[key_name], durs, vseed)
         IN  /\ tracks' = tracks \o
                  << << SetTempo(tempo_val), ProgramChange(0, 0),
                        ControlChange(0, 7, 127),
                        ControlChange(0, 91, reverb_amount),
                        ControlChange(0, 93, chorus_amount) >> \o notes,
                     << SetTempo(tempo_val),
                        ControlChange(DrumChannel, 7, 127),
                        ControlChange(DrumChannel, 91, reverb_amount),
                        ControlChange(DrumChannel, 93, chorus_amount) >> >>
             /\ track_lengths' = << SeqSum([k \in DOMAIN durs |-> durs[k]]) >>
             /\ total_length' = SeqSum([k \in DOMAIN durs |-> durs[k]])
    /\ assembly' = "en"
    /\ pc' = "drum_start"
    /\ UNCHANGED <<inputs, bpm, outcome, music_type, words, word_lengths,
                   scale_intervals, mapped_indices, section, drums>>

-----------------------------------------------------------------------------
(* Spec: one press of the generate button in either program *)

\* what the user entered before the press in en_musictester.py
EnInput(t, scale, key, b) ==
    [variant |-> "en", text |-> t, mode |-> "BGM", bpm |-> b,
     scale_name |-> scale, key_name |-> key]

\* what the user entered before the press in random_music.py
RmInput(t, m, b) ==
    [variant |-> "rm", text |-> t, mode |-> m, bpm |-> b,
     scale_name |-> "none", key_name |-> "none"]

\* the presses the programs are checked with: empty and blank texts, one and
\* two words, words of punctuation only, verse and chorus lines, genre lines;
\* the tempo slider at the position it starts at and at its lowest; and the
\* values the handlers test for that the widgets of the form do not offer: a
\* tempo of 0 or below, a scale and a key that are not in the tables
EnInputs ==
    { EnInput(<<>>, "Rock (Minor Pentatonic)", "Low (C3)", 120),
      EnInput(<<" ", "\n">>, "Rock (Minor Pentatonic)", "Low (C3)", 120),
      EnInput(<<"a">>, "Rock (Minor Pentatonic)", "Low (C3)", 120),
      EnInput(<<".">>, "Rock (Minor Pentatonic)", "Low (C3)", 120),
      EnInput(<<"a", " ", ".">>, "Ballad (Major Scale)", "Low (C3)", 120),
      EnInput(<<"a", " ", "b", "b">>, "Rock (Minor Pentatonic)", "High (E3)", 120),
      EnInput(<<"H", "i", "!", " ", "y", "o", "u">>, "Ballad (Major Scale)",
              "High (E3)", 60),
      EnInput(<<"a">>, "Rock (Minor Pentatonic)", "Low (C3)", 0),
      EnInput(<<"a">>, "Rock (Minor Pentatonic)", "Low (C3)", -5),
      EnInput(<<"a">>, "Unknown", "Low (C3)", 120),
      EnInput(<<"a">>, "Rock (Minor Pentatonic)", "Unknown", 120) }

RmInputs ==
    { RmInput(<<>>, "BGM", 120),
      RmInput(<<"a">>, "BGM", 120),
      RmInput(<<"a">>, "BGM", 40),
      RmInput(<<".">>, "BGM", 120),
      RmInput(<<"a", " ", ".">>, "BGM", 120),
      RmInput(<<"a", "\n", "b", "b">>, "BGM", 120),
      RmInput(<<"#", "r", "o", "c", "k">>, "BGM", 120),
      RmInput(<<"#">>, "BGM", 120),
      RmInput(<<".">>, "SONG", 120),
      RmInput(<<"a">>, "SONG", 120),
      RmInput(<<">">>, "SONG", 120),
      RmInput(<<"a", "\n", ">", "b", "b">>, "SONG", 120),
      RmInput(<<"b", "\n", ">", ".">>, "SONG", 40),
      RmInput(<<"#", "\n", "a">>, "SONG", 120),
      RmInput(<<"a">>, "BGM", 0),
      RmInput(<<>>, "BGM", -5) }

Init ==
    /\ \E i \in EnInputs \cup RmInputs :
         /\ variant = i.variant
         /\ text = i.text
         /\ mode = i.mode
         /\ bpm_var = i.bpm
         /\ bpm = i.bpm
         /\ scale_name = i.scale_name
         /\ key_name = i.key_name
    /\ outcome = "none"
    /\ music_type = "default"
    /\ words = <<>>
    /\ word_lengths = <<>>
    /\ scale_intervals = <<>>
    /\ mapped_indices = <<>>
    /\ section = [A_data |-> <<>>, A_len |-> 0, B_data |-> <<>>, B_len |-> 0]
    /\ track_lengths = <<>>
    /\ assembly = "none"
    /\ total_length = 0
    /\ tracks = <<>>
    /\ current_time = 0
    /\ current_id = "None"
    /\ measures = <<>>
    /\ markov_calls = <<>>
    /\ pc = "start"

Next ==
    \/ EnValidate
    \/ EnMapIndices
    \/ EnMelody
    \/ RmStart
    \/ BgmMode
    \/ SongMode
    \/ DrumStart
    \/ DrumIteration
    \/ DrumExit

Spec == Init /\ [][Next]_vars

-----------------------------------------------------------------------------
(* SpecBucket: the bucket mapper on its own, for every list of 1..MaxWords   *)
(* lengths in 0..MaxWordLen and every scale size the program ships or of     *)
(* 1..MaxScale degrees                                                       *)

\* a scale of n degrees
ChromaticScale(n) == [i \in 1..n |-> i - 1]

BucketScales ==
    {SCALE_OPTIONS[k] : k \in DOMAIN SCALE_OPTIONS}
        \cup {ChromaticScale(n) : n \in 1..MaxScale}

LengthLists == UNION {[1..n -> 0..MaxWordLen] : n \in 1..MaxWords}

InitBucket ==
    /\ variant = "en"
    /\ text = <<>>
    /\ mode = "BGM"
    /\ bpm_var = 120
    /\ bpm = 120
    /\ scale_name = "none"
    /\ key_name = "none"
    /\ outcome = "none"
    /\ music_type = "default"
    /\ words = <<>>
    /\ word_lengths \in LengthLists
    /\ scale_intervals \in BucketScales
    /\ mapped_indices = <<>>
    /\ section = [A_data |-> <<>>, A_len |-> 0, B_data |-> <<>>, B_len |-> 0]
    /\ track_lengths = <<>>
    /\ assembly = "none"
    /\ total_length = 0
    /\ tracks = <<>>
    /\ current_time = 0
    /\ current_id = "None"
    /\ measures = <<>>
    /\ markov_calls = <<>>
    /\ pc = "en_map"

NextBucket == EnMapIndices

SpecBucket == InitBucket /\ [][NextBucket]_vars

-----------------------------------------------------------------------------
(* Claims about the drum scheduler and the measure renderers *)

\* the note messages of the drum track
DrumNotes == SelectSeq(DrumTrack, IsNote)

\* C1: when the drum scheduler has finished, the delta times of the note
\* messages it appended to the drum track sum to the target exactly, and its
\* elapsed counter (current_time) equals the target.
C1_DrumDurationEquality ==
    pc = "done" =>
        /\ SumTimes(DrumNotes) = total_length
        /\ current_time = total_length

\* C1 witness: the scheduler finished a target of one measure plus 580 ticks
C1_Witness ==
    /\ pc = "done"
    /\ total_length = measure_ticks + 580
    /\ Len(measures) = 2
    /\ SumTimes(DrumNotes) = 2500

\* C2: in every state of the scheduler, no prefix of the drum track has a sum
\* of delta times above the target.
C2_DrumNeverOverruns ==
    Len(tracks) > 0 => PrefixSumsWithin(DrumTrack, 0, total_length)

\* C2 witness: a partial measure whose last note-off had to be shortened
\* (target 1 measure + 49 ticks) has been written after a full measure
C2_Witness ==
    /\ pc = "done"
    /\ total_length = measure_ticks + 49
    /\ Len(measures) = 2
    /\ \E i \in DOMAIN DrumTrack :
         DrumTrack[i].type = "note_off" /\ DrumTrack[i].time = 49

\* C3: the scheduler loop terminates for every target and every draw: every
\* iteration strictly increases current_time, the loop has exited only with
\* current_time at the target or beyond, and it does exit.
C3_DrumTerminates ==
    /\ [][measures' # measures => current_time' > current_time]_vars
    /\ [](pc = "done" => current_time >= total_length)
    /\ <>(pc = "done")

\* C3 witness: the loop exited after two full measures and a remainder
C3_Witness ==
    /\ pc = "done"
    /\ total_length = 2 * measure_ticks + 580
    /\ Len(measures) = 3

\* C4: a partial measure of budget leftover (1..1919), for every pattern, never
\* lets the accumulated ticks (the running sum of the delta times written)
\* exceed leftover, and every note-off length written is in 0..50.
C4_PartialClamp ==
    (pc = "rendered" /\ total_length < measure_ticks) =>
        /\ PrefixSumsWithin(DrumTrack, 0, total_length)
        /\ \A i \in DOMAIN DrumTrack :
             DrumTrack[i].type = "note_off" => DrumTrack[i].time \in 0..OffTicks

\* C4 witness: leftover = 70 against pattern D, whose second event is at
\* step 1 too; both notes were written with their 50-tick note-off
C4_Witness ==
    /\ pc = "rendered"
    /\ total_length = 70
    /\ current_id = "D"
    /\ Cardinality({i \in DOMAIN DrumTrack :
                      DrumTrack[i].type = "note_off" /\ DrumTrack[i].time = 50}) = 2

-----------------------------------------------------------------------------
(* Claims about the melody assembly of random_music.py *)

\* the messages of melody track ch after its three header messages
MelodyEvents(ch) == SubSeq(tracks[ch], 4, Len(tracks[ch]))

\* a message with its channel id and its program value put aside
Neutral(m) ==
    LET c == IF "channel" \in DOMAIN m THEN [m EXCEPT !.channel = 0] ELSE m
    IN  IF c.type = "program_change" THEN [c EXCEPT !.program = 0] ELSE c

\* the number of messages a section's data is written as
MessageCount(data) ==
    2 * Len(data) + Cardinality({k \in DOMAIN data : data[k].gap > 0})

\* the (pitch, velocity, duration, gap) events a sequence of melody messages
\* spells: a note_on of velocity > 0, its note_off, and the gap message if any
RECURSIVE NoteEvents(_)
NoteEvents(evs) ==
    IF Len(evs) < 2 THEN <<>>
    ELSE IF Len(evs) >= 3 /\ evs[3].type = "note_on" /\ evs[3].velocity = 0
         THEN << [note_num |-> evs[1].note, velocity |-> evs[1].velocity,
                  dur |-> evs[2].time, gap |-> evs[3].time] >>
                 \o NoteEvents(SubSeq(evs, 4, Len(evs)))
         ELSE << [note_num |-> evs[1].note, velocity |-> evs[1].velocity,
                  dur |-> evs[2].time, gap |-> 0] >>
                 \o NoteEvents(SubSeq(evs, 3, Len(evs)))

\* C5: in flat (BGM) mode the (pitch, velocity, duration, gap) events written
\* to melody channel 0 are the events written to melody channel 1, and the two
\* tracks differ in nothing but the channel id and the program-change value.
C5_FlatUnison ==
    assembly = "bgm" =>
        /\ Len(tracks) >= 2
        /\ NoteEvents(MelodyEvents(1)) = NoteEvents(MelodyEvents(2))
        /\ NoteEvents(MelodyEvents(1)) = section.A_data
        /\ Len(tracks[1]) = Len(tracks[2])
        /\ \A i \in DOMAIN tracks[1] :
             /\ Neutral(tracks[1][i]) = Neutral(tracks[2][i])
             /\ "channel" \in DOMAIN tracks[1][i] =>
                   tracks[1][i].channel = 0 /\ tracks[2][i].channel = 1

\* a flat run of two different words, played twice, on two different programs
C5_Witness ==
    /\ assembly = "bgm"
    /\ pc = "done"
    /\ Len(section.A_data) = 4
    /\ section.A_data[1].note_num # section.A_data[2].note_num
    /\ section.A_data[1].dur # section.A_data[3].dur
    /\ tracks[1][2].program # tracks[2][2].program

\* C6: in verse/chorus (SONG) mode with a chorus word, on every channel the
\* messages of the third section are, one by one, the messages of the first:
\* the verse data is generated once and replayed.
C6_VerseReplay ==
    assembly = "song" =>
        \A ch \in 1..2 :
            LET na == MessageCount(section.A_data)
                nb == MessageCount(section.B_data)
                ev == MelodyEvents(ch)
            IN  /\ Len(ev) = 2 * na + nb
                /\ SubSeq(ev, 1, na) = SubSeq(ev, na + nb + 1, 2 * na + nb)
                /\ NoteEvents(SubSeq(ev, 1, na)) = section.A_data
                /\ NoteEvents(SubSeq(ev, na + nb + 1, 2 * na + nb)) = section.A_data

\* a song of a verse note and a chorus note
C6_Witness ==
    /\ assembly = "song"
    /\ pc = "done"
    /\ Len(section.A_data) >= 1
    /\ Len(section.B_data) >= 1

\* C7: in SONG mode with a chorus word, the total handed to the drum scheduler
\* is 2 * A_len + B_len of the two generate_section_data calls, and it is the
\* sum of the delta times written to each melody track.
C7_SongTotal ==
    assembly = "song" =>
        /\ total_length = 2 * section.A_len + section.B_len
        /\ \A ch \in 1..2 : SumTimes(tracks[ch]) = total_length

\* a song whose chorus drew a gap
C7_Witness ==
    /\ assembly = "song"
    /\ section.A_len > 0
    /\ \E k \in DOMAIN section.B_data : section.B_data[k].gap > 0
    /\ pc = "drum_loop"

\* C8: in both modes the melody channels have the same total of ticks, so the
\* drum target, the maximum of the channel totals, is the total of each.
C8_EqualChannelTotals ==
    assembly \in {"bgm", "song"} =>
        /\ Len(track_lengths) = 2
        /\ track_lengths[1] = track_lengths[2]
        /\ \A ch \in 1..2 :
             /\ track_lengths[ch] = total_length
             /\ SumTimes(tracks[ch]) = track_lengths[ch]

\* a flat run whose melody is longer than a measure, its drums written
C8_Witness ==
    /\ assembly = "bgm"
    /\ total_length > measure_ticks
    /\ track_lengths[2] = total_length
    /\ pc = "done"

-----------------------------------------------------------------------------
(* Claims about the bucket mapper of en_musictester.py *)

\* the mapper has run to its end
Mapped == pc = "en_melody"

\* the number of lengths in [min_len, max_len]
RangeSize == SeqMax(word_lengths) - SeqMin(word_lengths) + 1

\* C9, as stated: every token gets a degree in [0, N-1], the tokens of minimum
\* length get degree 0 and the tokens of maximum length get degree N-1.
C9_AsStated ==
    Mapped =>
        /\ Len(mapped_indices) = Len(word_lengths)
        /\ \A i \in DOMAIN mapped_indices :
             /\ mapped_indices[i] \in 0..(Len(scale_intervals) - 1)
             /\ word_lengths[i] = SeqMin(word_lengths) => mapped_indices[i] = 0
             /\ word_lengths[i] = SeqMax(word_lengths) =>
                   mapped_indices[i] = Len(scale_intervals) - 1

\* C9, amended: the mapper never fails; every token gets a degree in [0, N-1],
\* the tokens of minimum length get degree 0 and the tokens of maximum length
\* get degree min(N, maxLen - minLen + 1) - 1, which is N-1 exactly when the
\* range [minLen, maxLen] has at least N lengths.
C9_BucketCoverage ==
    /\ outcome # "IndexError"
    /\ Mapped =>
        /\ Len(mapped_indices) = Len(word_lengths)
        /\ \A i \in DOMAIN mapped_indices :
             /\ mapped_indices[i] \in 0..(Len(scale_intervals) - 1)
             /\ word_lengths[i] = SeqMin(word_lengths) => mapped_indices[i] = 0
             /\ word_lengths[i] = SeqMax(word_lengths) =>
                   mapped_indices[i] = Min(Len(scale_intervals), RangeSize) - 1
             /\ (mapped_indices[i] = Len(scale_intervals) - 1
                    /\ word_lengths[i] = SeqMax(word_lengths))
                   <=> (word_lengths[i] = SeqMax(word_lengths)
                          /\ RangeSize >= Len(scale_intervals))

\* three tokens of two lengths mapped onto a shipped scale of six degrees: the
\* longest token gets a degree below the last
C9_Witness ==
    /\ Mapped
    /\ Len(scale_intervals) = 6
    /\ Len(word_lengths) = 3
    /\ RangeSize = 2
    /\ \E i \in DOMAIN word_lengths :
         /\ word_lengths[i] = SeqMax(word_lengths)
         /\ mapped_indices[i] = 1

-----------------------------------------------------------------------------
(* Claims about texts without a usable token *)

\* the text holds punctuation and white space only
NoUsableToken == \A i \in DOMAIN text : text[i] \in Punctuation \cup Whitespace

\* C10: when the text yields no usable token after cleaning, generation fails
\* fast: no track, no note event and no drum event is produced, in both
\* programs.
C10_FailsFast ==
    NoUsableToken =>
        /\ tracks = <<>>
        /\ outcome \in {"none", "warning"}
        /\ pc \in {"start", "done"}

\* a text of punctuation only, and the press has run to its end with tracks
C10_Witness ==
    /\ NoUsableToken
    /\ text # <<>>
    /\ pc = "done"
    /\ outcome = "generated"
    /\ Len(tracks) >= 2

-----------------------------------------------------------------------------
(* Claims about the configuration checks *)

\* the tempo is not positive, or the scale or the key is not in its table
InvalidConfiguration ==
    \/ bpm_var <= 0
    \/ variant = "en" /\ scale_name \notin DOMAIN SCALE_OPTIONS
    \/ variant = "en" /\ key_name \notin DOMAIN KEY_OPTIONS

-----------------------------------------------------------------------------
(* Claims about the measures the drum scheduler renders *)

\* the measures a target of T ticks is to be rendered as
ExpectedMeasureKinds(T) ==
    [i \in 1..(T \div measure_ticks) |-> [kind |-> "full", ticks |-> measure_ticks]]
        \o (IF T % measure_ticks > 0
            THEN << [kind |-> "partial", ticks |-> T % measure_ticks] >>
            ELSE <<>>)

\* the measures rendered so far, without their pattern ids
MeasureKinds == [i \in DOMAIN measures |->
                    [kind |-> measures[i].kind, ticks |-> measures[i].ticks]]

\* C12: for every target T the scheduler renders floor(T / 1920) full measures
\* and then one partial measure of T mod 1920 ticks when that is not zero and
\* none otherwise; a partial measure is the last measure, and after it no
\* Markov transition is made and nothing more is scheduled.
C12_MeasureSchedule ==
    /\ [](pc = "done" => MeasureKinds = ExpectedMeasureKinds(total_length))
    /\ [](\A i \in 1..(Len(measures) - 1) : measures[i].kind = "full")
    /\ [][(measures' # measures /\ measures'[Len(measures')].kind = "partial")
            => (pc' = "done" /\ current_id' = measures'[Len(measures')].id)]_vars
    /\ [][pc # "done"]_vars

\* a target of 2500 ticks: one full measure, then a partial one of 580 ticks
C12_Witness ==
    /\ pc = "done"
    /\ total_length = 2500
    /\ MeasureKinds = << [kind |-> "full", ticks |-> 1920],
                         [kind |-> "partial", ticks |-> 580] >>
    /\ current_time = 2500

-----------------------------------------------------------------------------
(* Claims about the messages of one rendered measure *)

\* a full measure of a shipped pattern has been rendered
FullRendered ==
    pc = "rendered" /\ total_length = measure_ticks /\ current_id \in PatternIds

\* C13: a full measure of pattern A, B or C is written as, in ascending step
\* order and for each of the 16 (role, step) pairs, one note-on at delta
\* (step - 1) * 120 minus the ticks accumulated so far and one note-off of 50
\* ticks, then a filler of velocity 0; the delta times sum to 1920.
C13_FullMeasure ==
    FullRendered =>
        LET pattern == get_drum_pattern_map[current_id]
            t       == DrumTrack
        IN  /\ Len(pattern) = 16
            /\ \A k \in 1..15 : pattern[k][2] < pattern[k + 1][2]
            /\ Len(t) = 33
            /\ \A k \in 1..16 :
                 /\ t[2 * k - 1].type = "note_on"
                 /\ t[2 * k - 1].note = DRUM_NOTE_MAP[pattern[k][1]]
                 /\ t[2 * k - 1].velocity > 0
                 /\ t[2 * k - 1].time =
                       (pattern[k][2] - 1) * 120 - SumTimes(SubSeq(t, 1, 2 * k - 2))
                 /\ t[2 * k] = NoteOff(DRUM_NOTE_MAP[pattern[k][1]], 0, 50, DrumChannel)
            /\ t[33].type = "note_on" /\ t[33].velocity = 0
            /\ SumTimes(SubSeq(t, 1, 32)) + t[33].time = 1920
            /\ SumTimes(t) = 1920

\* pattern C rendered by random_music.py: the second note 70 ticks after the
\* first note-off, the filler 70 ticks after the last
C13_Witness ==
    /\ FullRendered
    /\ variant = "rm"
    /\ current_id = "C"
    /\ DrumTrack[3].time = 70
    /\ DrumTrack[33] = NoteOn(36, 0, 70, DrumChannel)

\* a partial measure of a shipped pattern has been rendered
PartialRendered ==
    pc = "rendered" /\ total_length < measure_ticks /\ current_id \in PatternIds

\* C14: a partial measure of budget leftover (0 < leftover < 1920) of pattern A,
\* B or C holds notes for exactly the pairs, in step order, whose step tick
\* (step - 1) * 120 is at most leftover, and for no later pair; each note-off
\* lasts min(50, leftover - step tick); a filler of the ticks that remain
\* follows when any remain; the delta times sum to leftover.
C14_PartialMeasure ==
    PartialRendered =>
        LET pattern  == get_drum_pattern_map[current_id]
            leftover == total_length
            t        == DrumTrack
            within   == {k \in DOMAIN pattern : (pattern[k][2] - 1) * 120 <= leftover}
            n        == Cardinality(within)
            rest     == leftover - SumTimes(SubSeq(t, 1, 2 * n))
        IN  /\ leftover > 0
            /\ within = 1..n
            /\ Cardinality({i \in DOMAIN t : t[i].type = "note_off"}) = n
            /\ \A k \in 1..n :
                 /\ t[2 * k - 1].type = "note_on"
                 /\ t[2 * k - 1].note = DRUM_NOTE_MAP[pattern[k][1]]
                 /\ t[2 * k - 1].velocity > 0
                 /\ t[2 * k - 1].time =
                       (pattern[k][2] - 1) * 120 - SumTimes(SubSeq(t, 1, 2 * k - 2))
                 /\ t[2 * k] = NoteOff(DRUM_NOTE_MAP[pattern[k][1]], 0,
                                       Min(50, leftover - (pattern[k][2] - 1) * 120),
                                       DrumChannel)
            /\ rest >= 0
            /\ t = SubSeq(t, 1, 2 * n)
                     \o (IF rest > 0 THEN << NoteOn(36, 0, rest, DrumChannel) >> ELSE <<>>)
            /\ SumTimes(t) = leftover

\* pattern B in a budget of 500 ticks: five notes, the last note-off cut to 20
\* ticks, nothing left for a filler
C14_Witness ==
    /\ PartialRendered
    /\ current_id = "B"
    /\ total_length = 500
    /\ Len(DrumTrack) = 10
    /\ DrumTrack[10].time = 20

-----------------------------------------------------------------------------
(* Claims about the pattern transition table *)

RECURSIVE Cumulative(_, _)
\* the sum of the first k probabilities of a transition list, in tenths
Cumulative(choices, k) ==
    IF k = 0 THEN 0 ELSE Cumulative(choices, k - 1) + choices[k][2]

\* C15: for a current pattern p and a draw r in [0, 1), choose_next_pattern
\* returns the first entry of p's list, in table order, whose cumulative
\* probability is strictly above r, and returns no pattern only when r is not
\* below the total of the list.
C15_FirstAboveDraw ==
    \A i \in DOMAIN markov_calls :
        LET call    == markov_calls[i]
            choices == DRUM_MARKOV[call.cur]
            above   == {k \in DOMAIN choices : Cumulative(choices, k) > call.r}
        IN  /\ above # {} =>
                 \E k \in above :
                    /\ \A j \in above : k <= j
                    /\ call.next = choices[k][1]
            /\ above = {} => call.next = "None"
            /\ call.next = "None" => call.r >= Cumulative(choices, Len(choices))

\* pattern B and a draw of 0.5: the cumulative 0.3 and 0.5 are not above the
\* draw, the third entry, C, is returned
C15_Witness ==
    \E i \in DOMAIN markov_calls :
        markov_calls[i] = [cur |-> "B", r |-> 5, next |-> "C"]

-----------------------------------------------------------------------------
(* Claims about the scheduler without a pattern *)

\* the loop is at its head with ticks to fill and holds no pattern
HoldsNoPattern ==
    pc = "drum_loop" /\ current_time < total_length /\ current_id = "None"

\* C16: when the Markov step has yielded no pattern, the scheduler neither
\* stalls nor fails: the iteration can be taken, it replaces the missing id by
\* one of A, B, C before the measure is rendered, and every measure, full or
\* partial, is rendered with an id of {A, B, C}.
C16_FallbackPattern ==
    /\ [](HoldsNoPattern => ENABLED DrumIteration)
    /\ [][HoldsNoPattern =>
            /\ Len(measures') = Len(measures) + 1
            /\ measures'[Len(measures')].held = "None"
            /\ measures'[Len(measures')].id \in PatternIds]_vars
    /\ [](\A i \in DOMAIN measures : measures[i].id \in PatternIds)

\* a full measure and a partial one were rendered, the first from no pattern
\* held, with pattern C chosen for it
C16_Witness ==
    /\ pc = "done"
    /\ Len(measures) = 2
    /\ measures[1].held = "None"
    /\ measures[1].id = "C"
    /\ measures[1].kind = "full"
    /\ measures[2].kind = "partial"

\* the sum of the probabilities listed for source state p, in tenths
RowTotal(p) == Cumulative(DRUM_MARKOV[p], Len(DRUM_MARKOV[p]))

\* C17, as stated: the probabilities listed for B sum to less than 1.0 and so
\* do those listed for C, so that a draw in [0, 1) can match no entry.
C17_AsStated ==
    /\ RowTotal("B") < 10
    /\ RowTotal("C") < 10
    /\ \A i \in DOMAIN markov_calls :
         markov_calls[i].cur \in {"B", "C"} /\ markov_calls[i].r >= 9
            => markov_calls[i].next = "None"

\* C17, amended: the probabilities listed for each of A, B and C sum to exactly
\* 1.0, so every draw in [0, 1) matches an entry and choose_next_pattern never
\* returns no pattern.
C17_RowsSumToOne ==
    /\ \A p \in DOMAIN DRUM_MARKOV : RowTotal(p) = 10
    /\ \A i \in DOMAIN markov_calls : markov_calls[i].next \in PatternIds

\* the highest draw, 0.9, from C and then from B: the last entry of each list
\* is returned
C17_Witness ==
    markov_calls = << [cur |-> "C", r |-> 9, next |-> "B"],
                      [cur |-> "B", r |-> 9, next |-> "C"] >>

-----------------------------------------------------------------------------
(* Claims about the notes of the melody *)

\* the melody tracks of the run: one in en_musictester.py, two in random_music.py
MelodyTracks == IF variant = "en" THEN {1} ELSE {1, 2}

\* the sounding notes of a track: its note-ons of a velocity above 0
SoundingNotes(t) == SelectSeq(t, LAMBDA m : m.type = "note_on" /\ m.velocity > 0)

\* C18: the melody holds exactly one note per non-empty token, in token order,
\* and none for a token that is empty after punctuation stripping: the number
\* of melody notes is the number of non-empty tokens, in both programs.
C18_OneNotePerToken ==
    assembly # "none" =>
        \A ch \in MelodyTracks :
            Len(SoundingNotes(tracks[ch])) = Len(NonEmpty(words))

\* en_musictester.py on the text "a .": one non-empty token, two melody notes
C18_Witness ==
    /\ variant = "en"
    /\ assembly = "en"
    /\ words = << <<"a">>, <<>> >>
    /\ Len(SoundingNotes(tracks[1])) = 2
    /\ pc = "done"

\* the drum track exists and is the last track
DrumTrackWritten == pc \in {"drum_loop", "done"} /\ assembly # "none"

\* C19: every note of generate_section_data has a duration of the allowed set
\* of its section (positive), a gap in 0..120 in a chorus and of 0 otherwise,
\* and a velocity of 80..120 in a verse and of 100..127 in a chorus; every
\* sounding drum note-on has a velocity of its range (60..100, in
\* en_musictester.py 70..100); every velocity written lies in 0..127.
C19_EventRanges ==
    /\ \A k \in DOMAIN section.A_data :
         /\ section.A_data[k].dur \in {240, 480, 960}
         /\ section.A_data[k].gap = 0
         /\ section.A_data[k].velocity \in 80..120
    /\ \A k \in DOMAIN section.B_data :
         /\ section.B_data[k].dur \in {480, 960, 1920}
         /\ section.B_data[k].gap \in 0..120
         /\ section.B_data[k].velocity \in 100..127
    /\ DrumTrackWritten =>
         \A i \in DOMAIN DrumTrack :
            (DrumTrack[i].type = "note_on" /\ DrumTrack[i].velocity > 0) =>
                DrumTrack[i].velocity \in (IF variant = "en" THEN 70..100 ELSE 60..100)
    /\ \A ch \in DOMAIN tracks : \A i \in DOMAIN tracks[ch] :
         IsNote(tracks[ch][i]) =>
            /\ tracks[ch][i].velocity \in 0..127
            /\ tracks[ch][i].time >= 0

\* a song written to its end: a verse note of the lowest velocity, a chorus
\* note of the highest velocity and the widest gap, a drum note of the lowest
C19_Witness ==
    /\ assembly = "song"
    /\ pc = "done"
    /\ \E k \in DOMAIN section.A_data : section.A_data[k].velocity = 80
    /\ \E k \in DOMAIN section.B_data :
         section.B_data[k].velocity = 127 /\ section.B_data[k].gap = 120
    /\ \E i \in DOMAIN DrumTrack :
         DrumTrack[i].type = "note_on" /\ DrumTrack[i].velocity = 60

-----------------------------------------------------------------------------
(* Claims about tokens of one length *)

\* all tokens have the same length
OneLength == SeqMin(word_lengths) = SeqMax(word_lengths)

\* C20: when all tokens have the same length, the bucket mapper gives every
\* token degree 0, for every scale size N >= 1: the one length lies in the
\* first part and the empty parts are never looked at.
C20_OneLengthDegreeZero ==
    (pc # "en_map" /\ OneLength) =>
        /\ outcome # "IndexError"
        /\ Mapped
        /\ mapped_indices = [i \in DOMAIN word_lengths |-> 0]
        /\ array_split(SeqMin(word_lengths), SeqMax(word_lengths),
                       Len(scale_intervals))[1] = << word_lengths[1] >>
        /\ \A k \in 2..Len(scale_intervals) :
             array_split(SeqMin(word_lengths), SeqMax(word_lengths),
                         Len(scale_intervals))[k] = <<>>

\* three tokens of length 3 on a shipped scale of eight degrees
C20_Witness ==
    /\ Mapped
    /\ word_lengths = <<3, 3, 3>>
    /\ Len(scale_intervals) = 8
    /\ mapped_indices = <<0, 0, 0>>

-----------------------------------------------------------------------------
(* Claims about the fallback of song_mode *)

\* the text has a chorus line: a line whose first non-blank character is ">"
HasChorusLine ==
    \E i \in DOMAIN SplitLines(RStrip(text)) :
        StartsWith(LStrip(SplitLines(RStrip(text))[i]), <<">">>)

\* the melody of a press in SONG mode has been assembled
SongAssembled == variant = "rm" /\ mode = "SONG" /\ assembly # "none"

\* C21: in SONG mode a text without chorus lines is assembled as flat mode
\* assembles all its lines, with two melody tracks and the flat total, and a
\* text with at least one chorus line is assembled as verse, chorus, verse.
C21_FallbackWithoutChorusLines ==
    SongAssembled =>
        /\ ~HasChorusLine =>
              /\ assembly = "bgm"
              /\ words = Repeat(AllWords(RStrip(text)), loops)
              /\ Len(track_lengths) = 2
              /\ pc = "drum_start" => Len(tracks) = 2
              /\ total_length = section.A_len
        /\ HasChorusLine => assembly = "song"

\* the text ">" in SONG mode: a chorus line, assembled by flat mode, with the
\* marker played as a word
C21_Witness ==
    /\ SongAssembled
    /\ HasChorusLine
    /\ assembly = "bgm"
    /\ words = << <<">">>, <<">">> >>
    /\ Len(SoundingNotes(tracks[1])) = 2
    /\ pc = "done"

-----------------------------------------------------------------------------
(* Claims about the genre line *)

\* the first line of the text, trimmed and in lower case
FirstLine == Lower(Strip(SplitLines(RStrip(text))[1]))

\* detect_music_type has been called
GenreDetected == variant = "rm" /\ pc # "start" /\ RStrip(text) # <<>>

\* C22: detect_music_type is total: for every text it returns a key of the
\* instrument table without raising, the named genre when the first line,
\* trimmed and in lower case, is "#" and a known genre name, and "default"
\* otherwise, also for a first line of "#" alone.
C22_DetectionTotal ==
    GenreDetected =>
        /\ outcome # "IndexError"
        /\ music_type \in DOMAIN TYPE_INSTRUMENTS
        /\ \A g \in DOMAIN TYPE_INSTRUMENTS :
             FirstLine = <<"#">> \o GenreSpelling[g] => music_type = g
        /\ ~StartsWith(FirstLine, <<"#">>) => music_type = "default"
        /\ FirstLine = <<"#">> => music_type = "default" /\ pc # "done"

\* the text "#": the press ended in an IndexError before any track was made
C22_Witness ==
    /\ variant = "rm"
    /\ text = <<"#">>
    /\ pc = "done"
    /\ outcome = "IndexError"
    /\ tracks = <<>>

-----------------------------------------------------------------------------
(* Claims about the two variants' drum renderers and the drum track *)

\* a message without its velocity: (message type, note, delta time)
Shape(m) == <<m.type, m.note, m.time>>

Shapes(evs) == [i \in DOMAIN evs |-> Shape(evs[i])]

\* what the renderer of variant v writes for the measure of this state
MeasureBy(v, seed) ==
    IF total_length >= measure_ticks
    THEN FullMeasureEvents(v, get_drum_pattern_map[current_id], seed)
    ELSE PartialMeasureEvents(v, get_drum_pattern_map[current_id], total_length, seed)

\* a measure of a shipped pattern has been rendered, full or partial
ShippedRendered == pc = "rendered" /\ current_id \in PatternIds

\* C23: for each of the patterns A, B and C, a full measure and a partial
\* measure of every leftover in 1..1919 come out of the renderers of
\* en_musictester.py and of random_music.py as the same sequence of
\* (message type, note, delta time), whatever the velocities drawn.
C23_RenderersEquivalent ==
    ShippedRendered =>
        \A v \in {"en", "rm"} : \A seed \in Seeds :
            Shapes(MeasureBy(v, seed)) = Shapes(DrumTrack)

\* pattern C cut at 1130 ticks by random_music.py: the tenth note-off ends
\* exactly at the budget, so the early exit "accum >= leftover" is taken, and
\* en_musictester.py writes the same twenty messages
C23_Witness ==
    /\ ShippedRendered
    /\ variant = "rm"
    /\ current_id = "C"
    /\ total_length = 1130
    /\ Len(DrumTrack) = 20
    /\ DrumTrack[20].time = 50
    /\ Shapes(write_drum_partial_measure(DRUM_PATTERN_C, 1130, 0)) = Shapes(DrumTrack)

\* the scheduler has set up the drum track
DrumTrackOpen == pc \in {"drum_loop", "done"}

\* C24: every message the drum scheduler writes has a delta time of zero or
\* more, for the patterns A, B and C, every target and every sequence of
\* patterns: each note-off ends before the next step begins.
C24_NonNegativeDeltas ==
    DrumTrackOpen =>
        /\ \A i \in DOMAIN measures : measures[i].id \in PatternIds
        /\ \A i \in DOMAIN DrumTrack : DrumTrack[i].time >= 0
        /\ \A p \in PatternIds : \A k \in 1..(Len(get_drum_pattern_map[p]) - 1) :
             (get_drum_pattern_map[p][k][2] - 1) * PartialStepTick + OffTicks
                <= (get_drum_pattern_map[p][k + 1][2] - 1) * PartialStepTick

\* two full measures and a partial one of a single tick: the track ends with
\* the filler of 70 ticks, a note-on at delta 0 and a note-off cut to one tick
C24_Witness ==
    /\ pc = "done"
    /\ total_length = 2 * measure_ticks + 1
    /\ Len(measures) = 3
    /\ DrumTrack[Len(DrumTrack)].type = "note_off"
    /\ DrumTrack[Len(DrumTrack)].time = 1
    /\ DrumTrack[Len(DrumTrack) - 1].time = 0
    /\ DrumTrack[Len(DrumTrack) - 2] = NoteOn(36, 0, 70, DrumChannel)

\* C25: each row of the shipped transition table sums to 1.0, so for every
\* draw of [0, 1) choose_next_pattern returns a pattern, the scheduler never
\* reaches its random fallback after a full measure, and a measure rendered
\* with pattern C is never followed at once by another measure of pattern C.
C25_NoFallbackNoRepeatedC ==
    /\ \A p \in PatternIds : RowTotal(p) = 10
    /\ \A p \in PatternIds : \A r \in RandomDraws :
         choose_next_pattern(p, r) \in PatternIds
    /\ DrumTrackOpen => current_id \in PatternIds
    /\ \A i \in DOMAIN measures : measures[i].held = measures[i].id
    /\ \A i \in 1..(Len(measures) - 1) :
         ~(measures[i].id = "C" /\ measures[i + 1].id = "C")

\* the scheduler rendered C, B and C again: C was followed by B, never by C
C25_Witness ==
    /\ pc = "done"
    /\ Len(measures) = 3
    /\ measures[1].id = "C"
    /\ measures[2].id = "B"
    /\ measures[3].id = "C"
    /\ measures[3].kind = "partial"
    /\ measures[2].held = "B"

\* the note numbers of evs that a note-on started and no later note-off ended
LeftSounding(evs) ==
    {evs[i].note : i \in
        {i \in DOMAIN evs :
            /\ evs[i].type = "note_on"
            /\ evs[i].velocity > 0
            /\ ~\E j \in (i + 1)..Len(evs) :
                  evs[j].type = "note_off" /\ evs[j].note = evs[i].note}}

\* C26: in the drum track every note-on of positive velocity is followed at
\* once by a note-off of the same note number, in full measures and in
\* partial measures cut short alike, so no drum note is left sounding when
\* the scheduler has finished, whatever the target.
C26_NotesClosed ==
    DrumTrackOpen =>
        /\ \A i \in DOMAIN DrumTrack :
             (DrumTrack[i].type = "note_on" /\ DrumTrack[i].velocity > 0) =>
                /\ i < Len(DrumTrack)
                /\ DrumTrack[i + 1].type = "note_off"
                /\ DrumTrack[i + 1].note = DrumTrack[i].note
        /\ LeftSounding(DrumTrack) = {}

\* a full measure and a partial one of 49 ticks: the kick of the partial
\* measure is cut to 49 ticks and closed by its note-off, the last message of
\* the track
C26_Witness ==
    /\ pc = "done"
    /\ total_length = measure_ticks + 49
    /\ Len(measures) = 2
    /\ DrumTrack[Len(DrumTrack) - 1].type = "note_on"
    /\ DrumTrack[Len(DrumTrack) - 1].velocity > 0
    /\ DrumTrack[Len(DrumTrack) - 1].note = 36
    /\ DrumTrack[Len(DrumTrack)] = NoteOff(36, 0, 49, DrumChannel)

====
